---- MODULE Spec2Model ----
(***************************************************************************)
(* The synchronization and dependency-lock engine of the To-do backend     *)
(* (index.js): the WebSocket message handler handleMessage with its two    *)
(* store paths (the in-memory list inMemory and the mongoose collection    *)
(* Todo), the helpers computePriorityByDue and computeLockedFor, and the   *)
(* messages each handler emits.                                            *)
(*                                                                         *)
(* A handler is an async function: it runs from one await to the next      *)
(* without interruption, and other handlers may run while it is suspended. *)
(* Each action below is one such segment of one handler.                   *)
(*                                                                         *)
(* Time is counted in hours: Date.now() is clock, a dueDate is a day       *)
(* number (its local midnight is dueDate * Day) and a dueTime an hour of   *)
(* that day.  Ids are integers: the in-memory id 'm_' + Date.now() is the  *)
(* clock value, a mongoose _id is the next unused number.  A field that a  *)
(* JavaScript object lacks is its falsy stand-in: "" for a string, NoDate  *)
(* and NoTime for dueDate and dueTime, {} for dependencies, FALSE for      *)
(* locked and 0 for an id.                                                 *)
(***************************************************************************)
EXTENDS Integers, Sequences, FiniteSets, TLC

\* ---- bounds of the model ----
MaxId == 2          \* Tick stops at MaxId, and no id beyond it is handed out
MaxTasks == 2       \* no message is accepted that would grow the store beyond this
NumSlots == 2       \* handlers that can be in flight at once
NumSessions == 2    \* connected sessions

\* ---- program constants ----
Day == 24           \* const day = 24 * 60 * 60 * 1000, in hours

\* Date.now() counts from 1970: a timestamp is far beyond any position that
\* was counted up from 0.  Epoch is the timestamp of clock 0.
Epoch == 100

NoDate == 0 - 1
NoTime == 0 - 1

Ids == 1..MaxId
Slots == 1..NumSlots
Sessions == 1..NumSessions

VARIABLES
    mongo,      \* mongoose.connection.readyState === 1
    inMemory,   \* let inMemory = []: the in-memory list of todos
    db,         \* the Todo collection, documents in insertion order
    clock,      \* Date.now()
    nextOid,    \* the next _id the collection hands out
    pc,         \* per slot: where its handler is suspended, or "done"
    op,         \* per slot: msg.type of the handler
    ws,         \* per slot: the session its message came from
    arg,        \* per slot: msg.payload
    loc,        \* per slot: the handler's local variables
    out,        \* per slot: the messages the handler has emitted, in order
    cleared,    \* history: the last change of the store was a clearAll
    keep,       \* observation: the message types whose finished handlers stay readable
    before,     \* history, per slot: the store when an observed handler was entered
    last,       \* history: the slot whose handler has just run to its end, else 0
    open,       \* wss.clients with readyState OPEN: the connected sessions
    lref        \* per slot: where in inMemory the object is that a suspended
                \* `inMemory[idx].locked = await ...` will assign to, else 0

vars == <<mongo, inMemory, db, clock, nextOid, pc, op, ws, arg, loc, out, cleared, keep,
          before, last, open, lref>>

\* ------------------------------------------------------------------------
\* Todos and documents

Todo(id, text, completed, category, priority, dueDate, dueTime, dependencies, locked, position) ==
    [id |-> id, text |-> text, completed |-> completed, category |-> category,
     priority |-> priority, dueDate |-> dueDate, dueTime |-> dueTime,
     dependencies |-> dependencies, locked |-> locked, position |-> position]

\* A document of the collection is a todo plus the createdAt timestamp.
Doc(t, createdAt) ==
    [id |-> t.id, text |-> t.text, completed |-> t.completed, category |-> t.category,
     priority |-> t.priority, dueDate |-> t.dueDate, dueTime |-> t.dueTime,
     dependencies |-> t.dependencies, locked |-> t.locked, position |-> t.position,
     createdAt |-> createdAt]

\* The plain object the handlers build from a document d.
Plain(d) ==
    Todo(d.id, d.text, d.completed, d.category, d.priority, d.dueDate, d.dueTime,
         d.dependencies, d.locked, d.position)

Or(a, b) == IF a = "" THEN b ELSE a      \* a || b on strings

SeqMap(F(_), s) == [i \in 1..Len(s) |-> F(s[i])]

RECURSIVE SeqFilter(_, _)
SeqFilter(s, kept) ==
    IF s = <<>> THEN <<>>
    ELSE (IF Head(s) \in kept THEN <<Head(s)>> ELSE <<>>) \o SeqFilter(Tail(s), kept)

\* findIndex that falls back on the first todo when none has the id.
FindIndex_orFirst(s, id) ==
    IF \E i \in 1..Len(s) : s[i].id = id
    THEN CHOOSE i \in 1..Len(s) : s[i].id = id /\ \A j \in 1..(i - 1) : s[j].id # id
    ELSE IF s # <<>> THEN 1 ELSE 0

\* Array.prototype.findIndex(x => x.id === id), 1-based; 0 when there is none.
FindIndex(s, id) ==
    IF \E i \in 1..Len(s) : s[i].id = id
    THEN CHOOSE i \in 1..Len(s) : s[i].id = id /\ \A j \in 1..(i - 1) : s[j].id # id
    ELSE 0

\* The documents with _id = id (at most one).
DocIndex(d, id) == FindIndex(d, id)

\* sort({ position: 1, createdAt: -1 }); documents equal on both keep insertion order.
Before(a, b) ==
    \/ a.position < b.position
    \/ a.position = b.position /\ a.createdAt > b.createdAt

RECURSIVE Insert(_, _)
Insert(d, sorted) ==
    IF sorted = <<>> THEN <<d>>
    ELSE IF Before(d, Head(sorted)) THEN <<d>> \o sorted
    ELSE <<Head(sorted)>> \o Insert(d, Tail(sorted))

RECURSIVE SortDocs(_)
SortDocs(d) ==
    IF d = <<>> THEN <<>> ELSE Insert(d[Len(d)], SortDocs(SubSeq(d, 1, Len(d) - 1)))

\* The todos of the store in use, in the order the store holds them.
Stored == IF mongo THEN SeqMap(Plain, db) ELSE inMemory

\* getAllTodos(): what a read of the whole list returns.
getAllTodos ==
    IF mongo THEN SeqMap(Plain, SortDocs(db)) ELSE inMemory

\* ------------------------------------------------------------------------
\* Dependency resolver

\* computePriorityByDue with the 24 hour boundary left out of high.
computePriorityByDue_strict(dueDate, dueTime, now) ==
    IF dueDate = NoDate THEN ""
    ELSE LET diff == dueDate * Day + (IF dueTime = NoTime THEN 0 ELSE dueTime) - now
         IN  IF diff < Day THEN "high"
             ELSE IF diff <= 3 * Day THEN "medium"
             ELSE ""

\* computePriorityByDue(dueDate, dueTime) evaluated at time now; "" is null.
computePriorityByDue(dueDate, dueTime, now) ==
    IF dueDate = NoDate THEN ""
    ELSE LET target == dueDate * Day + (IF dueTime = NoTime THEN 0 ELSE dueTime)
             diff == target - now
         IN  IF diff <= 0 THEN "high"
             ELSE IF diff <= Day THEN "high"
             ELSE IF diff <= 3 * Day THEN "medium"
             ELSE ""

\* computeLockedFor on the in-memory list mem: deps.some(dep => !(t && t.completed))
\* with t the first todo of mem whose id is dep.
LockedInMemory(mem, deps) ==
    \E dep \in deps :
        LET i == FindIndex(mem, dep) IN ~(i # 0 /\ mem[i].completed)

\* computeLockedFor on the collection d: Todo.find({ _id: { $in: deps } }), then
\* !docs.every(d => d.completed).
LockedInDb(d, deps) ==
    LET docs == {i \in 1..Len(d) : d[i].id \in deps}
    IN  ~(\A i \in docs : d[i].completed)

computeLockedFor(deps) ==
    IF deps = {} THEN FALSE
    ELSE IF mongo THEN LockedInDb(db, deps)
    ELSE LockedInMemory(inMemory, deps)

\* ------------------------------------------------------------------------
\* Messages and fanout

\* ws.send(...) to one session, and broadcast(message, except): every session
\* but except (0 when no session is excluded).
\* broadcast without the c !== except test.
broadcast_toAll(except) == open

\* broadcast without the readyState test.
broadcast_toClosed(except) == {c \in Sessions : c # except}

broadcast(except) == {c \in open : c # except}

Replace(todos, to) == [type |-> "sync:replace", todos |-> todos, to |-> to]
Update(todo, to) == [type |-> "sync:update", todo |-> todo, to |-> to]
Confirm(tempId, realId, to) ==
    [type |-> "sync:confirm", tempId |-> tempId, realId |-> realId, to |-> to]
Reminder(id, to) == [type |-> "todo:reminder", id |-> id, to |-> to]

\* ------------------------------------------------------------------------
\* Handlers in flight

NoLoc == [none |-> TRUE]

Busy(h) == pc[h] # "done"

\* incoming: a message of session s is handed to handleMessage in slot h.  The
\* lowest free slot takes it.  On the in-memory path every await is of an
\* already settled promise, so a handler is only ever suspended across a
\* microtask: a further message is handled meanwhile only when it was read
\* from the same socket in the same turn, before any continuation has run.
CanStart(h, s) ==
    /\ ~Busy(h)
    /\ \A g \in Slots : g < h => Busy(g)
    /\ ~mongo => /\ \A g \in Slots : Busy(g) => ws[g] = s /\ g < h

\* Continuations on the in-memory path run in the order the handlers started.
CanResume(h) ==
    mongo \/ \A g \in Slots : g < h => ~Busy(g)

\* The handler of slot h is a type handler suspended at at.
At(h, type, at) == op[h] = type /\ pc[h] = at

\* A handler that is done leaves its slot blank, unless its message type is
\* being observed: then its type, session, payload and output stay readable
\* until the slot takes the next message.
Kept(type, newpc) == newpc # "done" \/ type \in keep

\* An async callback of session s starts in slot h and runs to its first await.
Begin(h, s, type, payload, newpc, newloc, msgs) ==
    /\ CanStart(h, s)
    /\ pc' = [pc EXCEPT ![h] = newpc]
    /\ op' = [op EXCEPT ![h] = IF Kept(type, newpc) THEN type ELSE "none"]
    /\ ws' = [ws EXCEPT ![h] = IF Kept(type, newpc) THEN s ELSE 1]
    /\ arg' = [arg EXCEPT ![h] = IF Kept(type, newpc) THEN payload ELSE NoLoc]
    /\ loc' = [loc EXCEPT ![h] = IF Kept(type, newpc) THEN newloc ELSE NoLoc]
    /\ out' = [out EXCEPT ![h] = IF Kept(type, newpc) THEN msgs ELSE <<>>]
    /\ before' = [before EXCEPT ![h] = IF type \in keep THEN Stored ELSE <<>>]
    /\ last' = IF newpc = "done" THEN h ELSE 0
    /\ UNCHANGED keep

\* The first segment of a handler: it is entered with a message of the open
\* session s.
Enter(h, s, type, payload, newpc, newloc, msgs) ==
    /\ s \in open
    /\ Begin(h, s, type, payload, newpc, newloc, msgs)
    /\ UNCHANGED open

\* A later segment: the handler resumes at at.
Resume(h, type, at, newpc, newloc, msgs) ==
    /\ op[h] = type
    /\ pc[h] = at
    /\ CanResume(h)
    /\ pc' = [pc EXCEPT ![h] = newpc]
    /\ op' = [op EXCEPT ![h] = IF Kept(type, newpc) THEN type ELSE "none"]
    /\ ws' = [ws EXCEPT ![h] = IF Kept(type, newpc) THEN @ ELSE 1]
    /\ arg' = [arg EXCEPT ![h] = IF Kept(type, newpc) THEN @ ELSE NoLoc]
    /\ loc' = [loc EXCEPT ![h] = IF Kept(type, newpc) THEN newloc ELSE NoLoc]
    /\ out' = [out EXCEPT ![h] = IF Kept(type, newpc) THEN @ \o msgs ELSE <<>>]
    /\ last' = IF newpc = "done" THEN h ELSE 0
    /\ UNCHANGED <<keep, before, open>>

\* The store after a segment; cleared records whether its last change was a
\* clearAll, and t is where the objects that suspended assignments hold are
\* in the new list.
StoreMoved(mem, d, isClearAll, t) ==
    /\ inMemory' = mem
    /\ db' = d
    /\ cleared' = IF isClearAll THEN TRUE
                  ELSE IF mem # inMemory \/ d # db THEN FALSE
                  ELSE cleared
    /\ lref' = t

\* A segment that changes the collection, or the objects of inMemory in place.
Store(mem, d, isClearAll) == StoreMoved(mem, d, isClearAll, lref)

StoreUnchanged == UNCHANGED <<inMemory, db, cleared, lref>>

\* unshift and [...items, ...inMemory]: n objects are put in front of the list.
Shifted(n) == [h \in Slots |-> IF lref[h] = 0 THEN 0 ELSE lref[h] + n]

\* inMemory.filter(...): a new list of the objects at the indices of kept.
Filtered(kept) ==
    [h \in Slots |-> IF lref[h] \in kept
                     THEN Cardinality({i \in kept : i <= lref[h]}) ELSE 0]

\* inMemory = [] and inMemory = order.map(...): a list of new objects.
Detached == [h \in Slots |-> 0]

\* ------------------------------------------------------------------------
\* Connections and dispatch

\* wss.on('connection'): the session joins wss.clients, and the server reads
\* the list for the initial sync:replace.
Connection_read(h, s) ==
    /\ s \notin open
    /\ open' = open \cup {s}
    /\ Begin(h, s, "connection", NoLoc, "connection_send", [todos |-> getAllTodos], <<>>)
    /\ StoreUnchanged
    /\ UNCHANGED <<mongo, clock, nextOid>>

Connection_send(h) ==
    /\ At(h, "connection", "connection_send")
    /\ Resume(h, "connection", "connection_send", "done", NoLoc,
              <<Replace(loc[h].todos, {ws[h]})>>)
    /\ StoreUnchanged
    /\ UNCHANGED <<mongo, clock, nextOid>>

\* The socket of session s closes: it leaves wss.clients.  Sessions are closed
\* here only while no handler of theirs is in flight.
Close(s) ==
    /\ s \in open
    /\ \A h \in Slots : Busy(h) => ws[h] # s
    /\ open' = open \ {s}
    /\ last' = 0
    /\ UNCHANGED <<mongo, inMemory, db, clock, nextOid, pc, op, ws, arg, loc, out, cleared,
                   keep, before, lref>>

\* The mongoose call a handler is suspended at rejects: the exception leaves
\* handleMessage and is caught in incoming; the call has changed nothing.
StoreFails(h) ==
    /\ mongo
    /\ Busy(h)
    /\ Resume(h, op[h], pc[h], "done", [failed |-> TRUE], <<>>)
    /\ StoreUnchanged
    /\ UNCHANGED <<mongo, clock, nextOid>>

\* Dispatch with a last branch that takes every remaining type for clearAll.
Dispatch_lastBranch(raw) ==
    IF ~raw.parses THEN "none"
    ELSE IF raw.type = "" THEN "none"
    ELSE "todo:clearAll"

\* What incoming and handleMessage make of the raw message raw: the branch
\* that handles it, "none" when JSON.parse throws, when it has no type and when
\* no branch tests for its type.  (The messages of the other branches are the
\* payloads of their actions.)
Dispatch(raw) ==
    IF ~raw.parses THEN "none"
    ELSE IF raw.type = "" THEN "none"
    ELSE IF raw.type \in {"todo:clearAll", "todo:removeAll"} THEN "todo:clearAll"
    ELSE "none"

\* incoming with a message that no branch handles: the handler returns (or
\* the parse error is caught) with nothing done.
Incoming_drop(h, s, raw) ==
    /\ Dispatch(raw) = "none"
    /\ Enter(h, s, "none", raw, "done", NoLoc, <<>>)
    /\ StoreUnchanged
    /\ UNCHANGED <<mongo, clock, nextOid>>

\* ------------------------------------------------------------------------
\* sync:request

SyncRequest_read(h, s) ==
    /\ Enter(h, s, "sync:request", [none |-> TRUE], "request_send",
             [todos |-> getAllTodos, afterClear |-> cleared], <<>>)
    /\ StoreUnchanged
    /\ UNCHANGED <<mongo, clock, nextOid>>

SyncRequest_send(h) ==
    /\ At(h, "sync:request", "request_send")
    /\ Resume(h, "sync:request", "request_send", "done", loc[h],
              <<Replace(loc[h].todos, {ws[h]})>>)
    /\ StoreUnchanged
    /\ UNCHANGED <<mongo, clock, nextOid>>

\* ------------------------------------------------------------------------
\* todo:add

\* Handlers in flight that will still insert into the store.
Inserting ==
    Cardinality({g \in Slots : pc[g] \in {"add_lock", "add_create", "add_unshift",
                                          "post_create"}})

\* Guard of the model's bounds: room for one more todo and one more id.
RoomFor(n) ==
    /\ Len(inMemory) + Len(db) + Inserting + n <= MaxTasks
    /\ mongo => nextOid + Inserting + n <= MaxId + 1

\* const priority = todo.priority || auto || 'low'
AddPriority(todo, now) ==
    Or(todo.priority, Or(computePriorityByDue(todo.dueDate, todo.dueTime, now), "low"))

\* Durable path, up to the await of computeLockedFor's query (or, with no
\* dependencies, up to the await of Todo.create).
TodoAdd_findLast(h, s, todo) ==
    /\ mongo
    /\ RoomFor(1)
    /\ LET pos == IF db = <<>> THEN 0
                  ELSE LET m == CHOOSE i \in 1..Len(db) :
                                    \A j \in 1..Len(db) : db[j].position <= db[i].position
                       IN  db[m].position + 1
           l == [pos |-> pos, priority |-> AddPriority(todo, clock), locked |-> FALSE]
       IN  Enter(h, s, "todo:add", todo,
                 IF todo.dependencies = {} THEN "add_create" ELSE "add_lock", l, <<>>)
    /\ StoreUnchanged
    /\ UNCHANGED <<mongo, clock, nextOid>>

TodoAdd_lock(h) ==
    /\ At(h, "todo:add", "add_lock")
    /\ Resume(h, "todo:add", "add_lock", "add_create",
              [loc[h] EXCEPT !.locked = LockedInDb(db, arg[h].dependencies)], <<>>)
    /\ StoreUnchanged
    /\ UNCHANGED <<mongo, clock, nextOid>>

\* Todo.create(...), then the confirm to the sender and the broadcast to the
\* others.  The schema requires text: without it create rejects and the
\* handler ends in incoming's catch.
TodoAdd_create(h) ==
    /\ At(h, "todo:add", "add_create")
    /\ LET todo == arg[h]
           real == Todo(nextOid, todo.text, todo.completed, Or(todo.category, "other"),
                        loc[h].priority, todo.dueDate, todo.dueTime, todo.dependencies,
                        loc[h].locked, loc[h].pos)
           msgs == (IF todo.id # 0 THEN <<Confirm(todo.id, real.id, {ws[h]})>> ELSE <<>>)
                   \o <<Update(real, broadcast(ws[h]))>>
       IN  IF todo.text = ""
           THEN /\ Resume(h, "todo:add", "add_create", "done", NoLoc, <<>>)
                /\ StoreUnchanged
                /\ UNCHANGED <<mongo, clock, nextOid>>
           ELSE /\ Resume(h, "todo:add", "add_create", "done", NoLoc, msgs)
                /\ Store(inMemory, Append(db, Doc(real, clock)), FALSE)
                /\ nextOid' = nextOid + 1
                /\ UNCHANGED <<mongo, clock>>

\* In-memory path, up to the await of computeLockedFor.
TodoAdd_prepare(h, s, todo) ==
    /\ ~mongo
    /\ RoomFor(1)
    /\ Enter(h, s, "todo:add", todo, "add_unshift",
             [id |-> clock, priority |-> AddPriority(todo, clock),
              locked |-> computeLockedFor(todo.dependencies)], <<>>)
    /\ StoreUnchanged
    /\ UNCHANGED <<mongo, clock, nextOid>>

TodoAdd_unshift(h) ==
    /\ At(h, "todo:add", "add_unshift")
    /\ LET todo == arg[h]
           obj == Todo(loc[h].id, todo.text, todo.completed, Or(todo.category, "other"),
                       loc[h].priority, todo.dueDate, todo.dueTime, todo.dependencies,
                       loc[h].locked, Len(inMemory))
           msgs == (IF todo.id # 0 THEN <<Confirm(todo.id, obj.id, {ws[h]})>> ELSE <<>>)
                   \o <<Update(obj, broadcast(ws[h]))>>
       IN  /\ Resume(h, "todo:add", "add_unshift", "done", NoLoc, msgs)
           /\ StoreMoved(<<obj>> \o inMemory, db, FALSE, Shifted(1))
           /\ UNCHANGED <<mongo, clock, nextOid>>

\* ------------------------------------------------------------------------
\* POST /api/todos

\* The todo the endpoint builds from the request body: priority defaults to
\* 'low' and category to 'other'; it sets no dependencies and no locked.
PostTodo(id, body, pos) ==
    Todo(id, body.text, FALSE, Or(body.category, "other"), Or(body.priority, "low"),
         body.dueDate, body.dueTime, {}, FALSE, pos)

\* Durable path, up to the await of Todo.create; a body without text is
\* answered with status 400.
PostTodos_findLast(h, body) ==
    /\ mongo
    /\ RoomFor(1)
    /\ LET pos == IF db = <<>> THEN 0
                  ELSE LET m == CHOOSE i \in 1..Len(db) :
                                    \A j \in 1..Len(db) : db[j].position <= db[i].position
                       IN  db[m].position + 1
       IN  IF body.text = ""
           THEN Begin(h, 0, "POST /api/todos", body, "done", [status |-> 400], <<>>)
           ELSE Begin(h, 0, "POST /api/todos", body, "post_create", [pos |-> pos], <<>>)
    /\ StoreUnchanged
    /\ UNCHANGED <<mongo, clock, nextOid, open>>

\* Todo.create(...), then the response with the new todo.
PostTodos_create(h) ==
    /\ At(h, "POST /api/todos", "post_create")
    /\ LET doc == PostTodo(nextOid, arg[h], loc[h].pos)
       IN  /\ Resume(h, "POST /api/todos", "post_create", "done", [todo |-> doc], <<>>)
           /\ Store(inMemory, Append(db, Doc(doc, clock)), FALSE)
    /\ nextOid' = nextOid + 1
    /\ UNCHANGED <<mongo, clock>>

\* In-memory path: the whole callback, which awaits nothing.
PostTodos_unshift(h, body) ==
    /\ ~mongo
    /\ RoomFor(1)
    /\ LET obj == PostTodo(clock, body, Len(inMemory))
       IN  IF body.text = ""
           THEN /\ Begin(h, 0, "POST /api/todos", body, "done", [status |-> 400], <<>>)
                /\ StoreUnchanged
           ELSE /\ Begin(h, 0, "POST /api/todos", body, "done", [todo |-> obj], <<>>)
                /\ StoreMoved(<<obj>> \o inMemory, db, FALSE, Shifted(1))
    /\ UNCHANGED <<mongo, clock, nextOid, open>>

\* ------------------------------------------------------------------------
\* todo:edit

\* The payload's field f, or absent when the payload does not supply it.
Given(p, f) == f \in p.has

EditAuto(p, now) ==
    computePriorityByDue(IF Given(p, "dueDate") THEN p.dueDate ELSE NoDate,
                         IF Given(p, "dueTime") THEN p.dueTime ELSE NoTime, now)

\* In-memory path: the assignments to inMemory[idx] before the await.
EditInMemory(t, p, now) ==
    [t EXCEPT
        !.text = IF Given(p, "text") THEN p.text ELSE @,
        !.category = IF Given(p, "category") THEN Or(p.category, @) ELSE @,
        !.dueDate = IF Given(p, "dueDate") THEN p.dueDate ELSE @,
        !.dueTime = IF Given(p, "dueTime") THEN p.dueTime ELSE @,
        !.priority = Or(p.priority, Or(EditAuto(p, now), Or(@, "low"))),
        !.dependencies = IF Given(p, "dependencies") THEN p.dependencies ELSE @]

\* Durable path: the update document given to findByIdAndUpdate.
EditUpdate(d, p, now) ==
    [d EXCEPT
        !.text = IF Given(p, "text") THEN p.text ELSE @,
        !.category = IF Given(p, "category") THEN p.category ELSE @,
        !.dueDate = IF Given(p, "dueDate") THEN p.dueDate ELSE @,
        !.dueTime = IF Given(p, "dueTime") THEN p.dueTime ELSE @,
        !.priority = Or(p.priority, Or(EditAuto(p, now), "low")),
        !.dependencies = IF Given(p, "dependencies") THEN p.dependencies ELSE @]

TodoEdit_mutate(h, s, p) ==
    /\ ~mongo
    /\ LET idx == FindIndex(inMemory, p.id)
           mem == [inMemory EXCEPT ![idx] = EditInMemory(@, p, clock)]
       IN  IF p.id = 0 \/ idx = 0
           THEN /\ Enter(h, s, "todo:edit", p, "done", NoLoc, <<>>)
                /\ StoreUnchanged
           ELSE /\ Enter(h, s, "todo:edit", p, "edit_assign",
                         [idx |-> idx,
                          locked |-> IF mem[idx].dependencies = {} THEN FALSE
                                     ELSE LockedInMemory(mem, mem[idx].dependencies)],
                         <<>>)
                /\ StoreMoved(mem, db, FALSE, [lref EXCEPT ![h] = idx])
    /\ UNCHANGED <<mongo, clock, nextOid>>

\* JSON.stringify leaves out a todo that is undefined.
UpdateOf(mem, idx, to) ==
    IF idx <= Len(mem) THEN Update(mem[idx], to) ELSE [to |-> to, type |-> "sync:update"]

\* inMemory[idx].locked = ...: the object to assign to was taken from the list
\* before the await, and an object that has left the list since is assigned
\* to all the same; then broadcast(... { todo: inMemory[idx] }), with the idx
\* found before the await, in the list as it is now.
TodoEdit_assign(h) ==
    /\ At(h, "todo:edit", "edit_assign")
    /\ LET idx == loc[h].idx
           mem == IF lref[h] = 0 THEN inMemory
                  ELSE [inMemory EXCEPT ![lref[h]].locked = loc[h].locked]
       IN  /\ Resume(h, "todo:edit", "edit_assign", "done", NoLoc,
                     <<UpdateOf(mem, idx, broadcast(0))>>)
           /\ StoreMoved(mem, db, FALSE, [lref EXCEPT ![h] = 0])
           /\ UNCHANGED <<mongo, clock, nextOid>>

\* After the document doc was fetched and its lock recomputed as locked.
EditAfterLock(h, at, doc, locked) ==
    IF locked # doc.locked
    THEN Resume(h, "todo:edit", at, "edit_setLocked", [doc |-> doc, locked |-> locked], <<>>)
    ELSE Resume(h, "todo:edit", at, "done", NoLoc, <<Update(Plain(doc), broadcast(0))>>)

TodoEdit_update(h, s, p) ==
    /\ mongo
    /\ LET i == DocIndex(db, p.id)
       IN  IF p.id = 0
           THEN /\ Enter(h, s, "todo:edit", p, "done", NoLoc, <<>>)
                /\ StoreUnchanged
           ELSE /\ Enter(h, s, "todo:edit", p, "edit_fetch", NoLoc, <<>>)
                /\ Store(inMemory,
                         IF i = 0 THEN db ELSE [db EXCEPT ![i] = EditUpdate(@, p, clock)],
                         FALSE)
    /\ UNCHANGED <<mongo, clock, nextOid>>

\* const doc = await Todo.findById(id).lean(); a missing document makes
\* doc.dependencies throw.  With no dependencies computeLockedFor asks nothing.
TodoEdit_fetch(h) ==
    /\ At(h, "todo:edit", "edit_fetch")
    /\ LET i == DocIndex(db, arg[h].id)
       IN  IF i = 0
           THEN Resume(h, "todo:edit", "edit_fetch", "done", NoLoc, <<>>)
           ELSE IF db[i].dependencies = {}
           THEN EditAfterLock(h, "edit_fetch", db[i], FALSE)
           ELSE Resume(h, "todo:edit", "edit_fetch", "edit_lock", [doc |-> db[i]], <<>>)
    /\ StoreUnchanged
    /\ UNCHANGED <<mongo, clock, nextOid>>

TodoEdit_lock(h) ==
    /\ At(h, "todo:edit", "edit_lock")
    /\ EditAfterLock(h, "edit_lock", loc[h].doc, LockedInDb(db, loc[h].doc.dependencies))
    /\ StoreUnchanged
    /\ UNCHANGED <<mongo, clock, nextOid>>

TodoEdit_setLocked(h) ==
    /\ At(h, "todo:edit", "edit_setLocked")
    /\ LET i == DocIndex(db, arg[h].id)
           doc == [loc[h].doc EXCEPT !.locked = loc[h].locked]
       IN  /\ Resume(h, "todo:edit", "edit_setLocked", "done", NoLoc,
                     <<Update(Plain(doc), broadcast(0))>>)
           /\ Store(inMemory,
                    IF i = 0 THEN db ELSE [db EXCEPT ![i].locked = loc[h].locked], FALSE)
           /\ UNCHANGED <<mongo, clock, nextOid>>

\* ------------------------------------------------------------------------
\* todo:remove

RemoveId(s, id) == SeqFilter(s, {t \in {s[i] : i \in 1..Len(s)} : t.id # id})

TodoRemove_filter(h, s, p) ==
    /\ ~mongo
    /\ IF p.id = 0
       THEN /\ Enter(h, s, "todo:remove", p, "done", NoLoc, <<>>)
            /\ StoreUnchanged
       ELSE LET mem == RemoveId(inMemory, p.id)
            IN  /\ Enter(h, s, "todo:remove", p, "done", NoLoc,
                         <<Replace(mem, broadcast(0))>>)
                /\ StoreMoved(mem, db, FALSE,
                              Filtered({i \in 1..Len(inMemory) : inMemory[i].id # p.id}))
    /\ UNCHANGED <<mongo, clock, nextOid>>

TodoRemove_delete(h, s, p) ==
    /\ mongo
    /\ IF p.id = 0
       THEN /\ Enter(h, s, "todo:remove", p, "done", NoLoc, <<>>)
            /\ StoreUnchanged
       ELSE /\ Enter(h, s, "todo:remove", p, "list", NoLoc, <<>>)
            /\ Store(inMemory, RemoveId(db, p.id), FALSE)
    /\ UNCHANGED <<mongo, clock, nextOid>>

\* broadcast({ type: 'sync:replace', payload: { todos: await getAllTodos() } }),
\* the last segment of the durable remove, clearCompleted, reorder and restoreMany.
Broadcast_list(h) ==
    /\ op[h] \in {"todo:remove", "todo:clearCompleted", "todo:reorder", "todo:restoreMany"}
    /\ Resume(h, op[h], "list", "done", NoLoc, <<Replace(getAllTodos, broadcast(0))>>)
    /\ StoreUnchanged
    /\ UNCHANGED <<mongo, clock, nextOid>>

\* ------------------------------------------------------------------------
\* todo:toggle

\* Unlocks without the other.dependencies.includes(id) test.
Unlocks_anyTodo(mem, id, other) ==
    /\ ~LockedInMemory(mem, other.dependencies)
    /\ other.locked

\* The dependents the in-memory loop unlocks, once the list is mem and the
\* todo id has just become completed.
Unlocks(mem, id, other) ==
    /\ id \in other.dependencies
    /\ ~LockedInMemory(mem, other.dependencies)
    /\ other.locked

\* The loop with the reminder of a dependent sent ahead of its update.
RECURSIVE UnlockMsgs_reminderFirst(_, _, _)
UnlockMsgs_reminderFirst(mem, id, i) ==
    IF i > Len(mem) THEN <<>>
    ELSE (IF Unlocks(mem, id, mem[i])
          THEN <<Reminder(mem[i].id, broadcast(0)),
                 Update([mem[i] EXCEPT !.locked = FALSE], broadcast(0))>>
          ELSE <<>>) \o UnlockMsgs_reminderFirst(mem, id, i + 1)

RECURSIVE UnlockMsgs(_, _, _)
UnlockMsgs(mem, id, i) ==
    IF i > Len(mem) THEN <<>>
    ELSE (IF Unlocks(mem, id, mem[i])
          THEN <<Update([mem[i] EXCEPT !.locked = FALSE], broadcast(0)),
                 Reminder(mem[i].id, broadcast(0))>>
          ELSE <<>>) \o UnlockMsgs(mem, id, i + 1)

TodoToggle_flip(h, s, p) ==
    /\ ~mongo
    /\ LET idx == FindIndex(inMemory, p.id)
           mem == [inMemory EXCEPT ![idx].completed = ~@]
           unlocked == [i \in 1..Len(mem) |->
                           IF mem[idx].completed /\ Unlocks(mem, mem[idx].id, mem[i])
                           THEN [mem[i] EXCEPT !.locked = FALSE] ELSE mem[i]]
       IN  IF p.id = 0 \/ idx = 0
           THEN /\ Enter(h, s, "todo:toggle", p, "done", NoLoc, <<>>)
                /\ StoreUnchanged
           ELSE /\ Enter(h, s, "todo:toggle", p, "done", NoLoc,
                         <<Update(mem[idx], broadcast(0))>>
                         \o (IF mem[idx].completed THEN UnlockMsgs(mem, mem[idx].id, 1)
                             ELSE <<>>))
                /\ Store(unlocked, db, FALSE)
    /\ UNCHANGED <<mongo, clock, nextOid>>

\* const doc = await Todo.findById(id); doc.completed = !doc.completed
TodoToggle_find(h, s, p) ==
    /\ mongo
    /\ LET i == DocIndex(db, p.id)
       IN  IF p.id = 0 \/ i = 0
           THEN Enter(h, s, "todo:toggle", p, "done", NoLoc, <<>>)
           ELSE Enter(h, s, "todo:toggle", p, "toggle_save",
                      [doc |-> [db[i] EXCEPT !.completed = ~@], dependents |-> <<>>], <<>>)
    /\ StoreUnchanged
    /\ UNCHANGED <<mongo, clock, nextOid>>

\* await doc.save() writes the changed path completed; it rejects when the
\* document is gone.  Then the toggled todo is broadcast as the handler holds it.
TodoToggle_save(h) ==
    /\ At(h, "todo:toggle", "toggle_save")
    /\ LET doc == loc[h].doc
           i == DocIndex(db, doc.id)
       IN  IF i = 0
           THEN /\ Resume(h, "todo:toggle", "toggle_save", "done", NoLoc, <<>>)
                /\ StoreUnchanged
                /\ UNCHANGED <<mongo, clock, nextOid>>
           ELSE /\ Resume(h, "todo:toggle", "toggle_save",
                          IF doc.completed THEN "toggle_dependents" ELSE "done",
                          IF doc.completed THEN loc[h] ELSE NoLoc,
                          <<Update(Plain(doc), broadcast(0))>>)
                /\ Store(inMemory, [db EXCEPT ![i].completed = doc.completed], FALSE)
                /\ UNCHANGED <<mongo, clock, nextOid>>

\* const dependents = await Todo.find({ dependencies: String(doc._id) }).lean()
TodoToggle_dependents(h) ==
    /\ At(h, "todo:toggle", "toggle_dependents")
    /\ LET deps == SeqFilter(db, {d \in {db[i] : i \in 1..Len(db)} :
                                      loc[h].doc.id \in d.dependencies})
       IN  IF deps = <<>>
           THEN Resume(h, "todo:toggle", "toggle_dependents", "done", NoLoc, <<>>)
           ELSE Resume(h, "todo:toggle", "toggle_dependents", "toggle_lock",
                       [loc[h] EXCEPT !.dependents = deps], <<>>)
    /\ StoreUnchanged
    /\ UNCHANGED <<mongo, clock, nextOid>>

\* The loop moves on to the next dependent, or the handler returns.
ToggleNext(h, at, msgs) ==
    IF Len(loc[h].dependents) > 1
    THEN Resume(h, "todo:toggle", at, "toggle_lock",
                [loc[h] EXCEPT !.dependents = Tail(@)], msgs)
    ELSE Resume(h, "todo:toggle", at, "done", NoLoc, msgs)

\* const locked = await computeLockedFor(dep._id, dep.dependencies || [])
TodoToggle_lock(h) ==
    /\ At(h, "todo:toggle", "toggle_lock")
    /\ LET dep == Head(loc[h].dependents)
       IN  IF ~LockedInDb(db, dep.dependencies) /\ dep.locked
           THEN Resume(h, "todo:toggle", "toggle_lock", "toggle_unlock", loc[h], <<>>)
           ELSE ToggleNext(h, "toggle_lock", <<>>)
    /\ StoreUnchanged
    /\ UNCHANGED <<mongo, clock, nextOid>>

\* await Todo.findByIdAndUpdate(dep._id, { locked: false })
TodoToggle_unlock(h) ==
    /\ At(h, "todo:toggle", "toggle_unlock")
    /\ LET i == DocIndex(db, Head(loc[h].dependents).id)
       IN  /\ Resume(h, "todo:toggle", "toggle_unlock", "toggle_refetch", loc[h], <<>>)
           /\ Store(inMemory, IF i = 0 THEN db ELSE [db EXCEPT ![i].locked = FALSE], FALSE)
           /\ UNCHANGED <<mongo, clock, nextOid>>

\* const newDoc = await Todo.findById(dep._id).lean(), the update and the
\* reminder; a missing newDoc makes newDoc._id throw.
TodoToggle_refetch(h) ==
    /\ At(h, "todo:toggle", "toggle_refetch")
    /\ LET i == DocIndex(db, Head(loc[h].dependents).id)
       IN  IF i = 0
           THEN Resume(h, "todo:toggle", "toggle_refetch", "done", NoLoc, <<>>)
           ELSE ToggleNext(h, "toggle_refetch",
                           <<Update([Plain(db[i]) EXCEPT !.locked = FALSE], broadcast(0)),
                             Reminder(db[i].id, broadcast(0))>>)
    /\ StoreUnchanged
    /\ UNCHANGED <<mongo, clock, nextOid>>

\* ------------------------------------------------------------------------
\* todo:clearCompleted, todo:clearAll

NotCompleted(s) == SeqFilter(s, {t \in {s[i] : i \in 1..Len(s)} : ~t.completed})

TodoClearCompleted_filter(h, s) ==
    /\ ~mongo
    /\ Enter(h, s, "todo:clearCompleted", NoLoc, "done", NoLoc,
             <<Replace(NotCompleted(inMemory), broadcast(0))>>)
    /\ StoreMoved(NotCompleted(inMemory), db, FALSE,
                  Filtered({i \in 1..Len(inMemory) : ~inMemory[i].completed}))
    /\ UNCHANGED <<mongo, clock, nextOid>>

TodoClearCompleted_deleteMany(h, s) ==
    /\ mongo
    /\ Enter(h, s, "todo:clearCompleted", NoLoc, "list", NoLoc, <<>>)
    /\ Store(inMemory, NotCompleted(db), FALSE)
    /\ UNCHANGED <<mongo, clock, nextOid>>

\* clearAll that deletes the completed todos only.
ClearAll_completedOnly(s) == NotCompleted(s)

\* inMemory = [] and Todo.deleteMany({}): what clearAll leaves of the store s.
ClearAll(s) == <<>>

TodoClearAll_assign(h, s, raw) ==
    /\ ~mongo
    /\ Dispatch(raw) = "todo:clearAll"
    /\ Enter(h, s, "todo:clearAll", raw, "done", NoLoc, <<Replace(<<>>, broadcast(0))>>)
    /\ StoreMoved(ClearAll(inMemory), db, TRUE, Detached)
    /\ UNCHANGED <<mongo, clock, nextOid>>

TodoClearAll_deleteMany(h, s, raw) ==
    /\ mongo
    /\ Dispatch(raw) = "todo:clearAll"
    /\ Enter(h, s, "todo:clearAll", raw, "clearAll_broadcast", NoLoc, <<>>)
    /\ Store(inMemory, ClearAll(db), TRUE)
    /\ UNCHANGED <<mongo, clock, nextOid>>

TodoClearAll_broadcast(h) ==
    /\ Resume(h, "todo:clearAll", "clearAll_broadcast", "done", NoLoc,
              <<Replace(<<>>, broadcast(0))>>)
    /\ StoreUnchanged
    /\ UNCHANGED <<mongo, clock, nextOid>>

\* ------------------------------------------------------------------------
\* todo:reorder

\* map[id] after inMemory.forEach(t => map[t.id] = t): the last todo with that
\* id, or the placeholder { id, text: '', completed: false }.
Placeholder(id) == Todo(id, "", FALSE, "", "", NoDate, NoTime, {}, FALSE, 0)

MapOr(mem, id) ==
    IF \E i \in 1..Len(mem) : mem[i].id = id
    THEN mem[CHOOSE i \in 1..Len(mem) :
                 mem[i].id = id /\ \A j \in (i + 1)..Len(mem) : mem[j].id # id]
    ELSE Placeholder(id)

TodoReorder_map(h, s, p) ==
    /\ ~mongo
    /\ LET mem == [i \in 1..Len(p.order) |->
                      [MapOr(inMemory, p.order[i]) EXCEPT !.position = i - 1]]
       IN  /\ Enter(h, s, "todo:reorder", p, "done", NoLoc, <<Replace(mem, broadcast(0))>>)
           /\ StoreMoved(mem, db, FALSE, Detached)
    /\ UNCHANGED <<mongo, clock, nextOid>>

\* await Todo.findByIdAndUpdate(order[i], { position: i }), i counted from 1 here.
SetPosition(d, id, i) ==
    LET k == DocIndex(d, id)
    IN  IF k = 0 THEN d ELSE [d EXCEPT ![k].position = i - 1]

TodoReorder_first(h, s, p) ==
    /\ mongo
    /\ IF p.order = <<>>
       THEN /\ Enter(h, s, "todo:reorder", p, "list", NoLoc, <<>>)
            /\ StoreUnchanged
       ELSE /\ Enter(h, s, "todo:reorder", p,
                     IF Len(p.order) > 1 THEN "reorder_update" ELSE "list",
                     IF Len(p.order) > 1 THEN [i |-> 2] ELSE NoLoc, <<>>)
            /\ Store(inMemory, SetPosition(db, p.order[1], 1), FALSE)
    /\ UNCHANGED <<mongo, clock, nextOid>>

TodoReorder_update(h) ==
    /\ At(h, "todo:reorder", "reorder_update")
    /\ LET i == loc[h].i
           order == arg[h].order
       IN  /\ Resume(h, "todo:reorder", "reorder_update",
                     IF i < Len(order) THEN "reorder_update" ELSE "list",
                     IF i < Len(order) THEN [i |-> i + 1] ELSE NoLoc, <<>>)
           /\ Store(inMemory, SetPosition(db, order[i], i), FALSE)
           /\ UNCHANGED <<mongo, clock, nextOid>>

\* ------------------------------------------------------------------------
\* todo:restoreMany

TodoRestoreMany_concat(h, s, p) ==
    /\ ~mongo
    /\ RoomFor(Len(p.items))
    /\ Enter(h, s, "todo:restoreMany", p, "done", NoLoc,
             <<Replace(p.items \o inMemory, broadcast(0))>>)
    /\ StoreMoved(p.items \o inMemory, db, FALSE, Shifted(Len(p.items)))
    /\ UNCHANGED <<mongo, clock, nextOid>>

\* Todo.insertMany(items.map((t, i) => ({ text, completed, category, priority,
\* position: Date.now() + i }))): the other fields take the schema's defaults.
\* An item without the required text rejects the whole insert.
Restored(t, i) ==
    Doc(Todo(nextOid + i - 1, t.text, t.completed, Or(t.category, "other"),
             Or(t.priority, "low"), NoDate, NoTime, {}, FALSE, Epoch + clock + i - 1),
        clock)

TodoRestoreMany_insertMany(h, s, p) ==
    /\ mongo
    /\ RoomFor(Len(p.items))
    /\ IF \E i \in 1..Len(p.items) : p.items[i].text = ""
       THEN /\ Enter(h, s, "todo:restoreMany", p, "done", NoLoc, <<>>)
            /\ StoreUnchanged
            /\ UNCHANGED nextOid
       ELSE /\ Enter(h, s, "todo:restoreMany", p, "list", NoLoc, <<>>)
            /\ Store(inMemory, db \o [i \in 1..Len(p.items) |-> Restored(p.items[i], i)],
                     FALSE)
            /\ nextOid' = nextOid + Len(p.items)
    /\ UNCHANGED <<mongo, clock>>

\* ------------------------------------------------------------------------
\* Time passes.

Tick ==
    /\ clock < MaxId
    /\ clock' = clock + 1
    /\ last' = 0
    /\ UNCHANGED <<mongo, inMemory, db, nextOid, pc, op, ws, arg, loc, out, cleared, keep,
                   before, open, lref>>

\* ------------------------------------------------------------------------
\* The messages the sessions send

\* Dependencies on the first todo, alone or with an id that names no todo.
DepSets == {{}, {1}, {1, MaxId + 1}}

AddPayloads ==
    [id : {0, 9}, text : {"a"}, completed : {FALSE}, category : {""}, priority : {""},
     dueDate : {NoDate}, dueTime : {NoTime}, dependencies : DepSets]

EditPayloads ==
    {[id |-> i, has |-> IF d = {0} THEN {} ELSE {"dependencies"}, text |-> "",
      category |-> "", priority |-> "", dueDate |-> NoDate, dueTime |-> NoTime,
      dependencies |-> IF d = {0} THEN {} ELSE d] : i \in 1..MaxTasks, d \in DepSets \cup {{0}}}

IdPayloads == [id : 1..MaxTasks]

ReorderPayloads ==
    [order : UNION {[1..n -> 1..MaxTasks] : n \in 0..MaxTasks}]

RestoreItems ==
    {Todo(i, "a", FALSE, "other", "low", NoDate, NoTime, {}, l, 0) :
        i \in 1..MaxTasks, l \in BOOLEAN}

\* Raw messages: one that does not parse, one without a type, one of a type
\* no branch tests for, and the two spellings of clearAll.
RawMessages ==
    {[parses |-> FALSE, type |-> ""]}
    \cup [parses : {TRUE}, type : {"", "todo:unknown", "todo:clearAll", "todo:removeAll"}]

RestorePayloads ==
    [items : {<<>>} \cup {<<t>> : t \in RestoreItems}]

\* ------------------------------------------------------------------------
\* Specification

\* The server has started with an empty store, on either store path, at one
\* of the times of clocks, and the sessions of O have connected; the handlers
\* of the types in K are observed.
InitWith(K, clocks, O) ==
    /\ mongo \in BOOLEAN
    /\ inMemory = <<>>
    /\ db = <<>>
    /\ clock \in clocks
    /\ nextOid = 1
    /\ pc = [h \in Slots |-> "done"]
    /\ op = [h \in Slots |-> "none"]
    /\ ws = [h \in Slots |-> 1]
    /\ arg = [h \in Slots |-> NoLoc]
    /\ loc = [h \in Slots |-> NoLoc]
    /\ out = [h \in Slots |-> <<>>]
    /\ cleared = FALSE
    /\ keep = K
    /\ before = [h \in Slots |-> <<>>]
    /\ last = 0
    /\ open = O
    /\ lref = [h \in Slots |-> 0]

Init == InitWith({"todo:toggle", "sync:request"}, {1}, Sessions)

\* The next-state relation when the slots in S take messages and the sessions
\* send the payloads of P.
Steps(S, P) ==
    \/ Tick
    \/ \E h \in S, s \in Sessions : SyncRequest_read(h, s)
    \/ \E h \in S : SyncRequest_send(h)
    \/ \E h \in S, s \in Sessions, p \in P.add : TodoAdd_findLast(h, s, p)
    \/ \E h \in S : TodoAdd_lock(h)
    \/ \E h \in S : TodoAdd_create(h)
    \/ \E h \in S, s \in Sessions, p \in P.add : TodoAdd_prepare(h, s, p)
    \/ \E h \in S : TodoAdd_unshift(h)
    \/ \E h \in S, s \in Sessions, p \in P.edit : TodoEdit_mutate(h, s, p)
    \/ \E h \in S : TodoEdit_assign(h)
    \/ \E h \in S, s \in Sessions, p \in P.edit : TodoEdit_update(h, s, p)
    \/ \E h \in S : TodoEdit_fetch(h)
    \/ \E h \in S : TodoEdit_lock(h)
    \/ \E h \in S : TodoEdit_setLocked(h)
    \/ \E h \in S, s \in Sessions, p \in P.id : TodoRemove_filter(h, s, p)
    \/ \E h \in S, s \in Sessions, p \in P.id : TodoRemove_delete(h, s, p)
    \/ \E h \in S : Broadcast_list(h)
    \/ \E h \in S, s \in Sessions, p \in P.id : TodoToggle_flip(h, s, p)
    \/ \E h \in S, s \in Sessions, p \in P.id : TodoToggle_find(h, s, p)
    \/ \E h \in S : TodoToggle_save(h)
    \/ \E h \in S : TodoToggle_dependents(h)
    \/ \E h \in S : TodoToggle_lock(h)
    \/ \E h \in S : TodoToggle_unlock(h)
    \/ \E h \in S : TodoToggle_refetch(h)
    \/ \E h \in S, s \in Sessions : TodoClearCompleted_filter(h, s)
    \/ \E h \in S, s \in Sessions : TodoClearCompleted_deleteMany(h, s)
    \/ \E h \in S, s \in Sessions, raw \in P.raw : Incoming_drop(h, s, raw)
    \/ \E h \in S, s \in Sessions, raw \in P.raw : TodoClearAll_assign(h, s, raw)
    \/ \E h \in S, s \in Sessions, raw \in P.raw : TodoClearAll_deleteMany(h, s, raw)
    \/ \E h \in S : TodoClearAll_broadcast(h)
    \/ \E h \in S, s \in Sessions, p \in P.reorder : TodoReorder_map(h, s, p)
    \/ \E h \in S, s \in Sessions, p \in P.reorder : TodoReorder_first(h, s, p)
    \/ \E h \in S : TodoReorder_update(h)
    \/ \E h \in S, s \in Sessions, p \in P.restore : TodoRestoreMany_concat(h, s, p)
    \/ \E h \in S, s \in Sessions, p \in P.restore : TodoRestoreMany_insertMany(h, s, p)

Payloads ==
    [add |-> AddPayloads, edit |-> EditPayloads, id |-> IdPayloads,
     reorder |-> ReorderPayloads, restore |-> RestorePayloads, raw |-> RawMessages]

\* One handler at a time: each message is handled to its end before the next.
Next == Steps({1}, Payloads)

Spec == Init /\ [][Next]_vars

\* Handlers overlapping: every slot takes messages, and a handler runs while
\* others are suspended at an await.  The sessions send adds without
\* dependencies, removes of the first todo and reorders of all todos.
FewPayloads ==
    [add |-> {p \in AddPayloads : p.id = 9 /\ p.dependencies = {}},
     id |-> {p \in IdPayloads : p.id = 1},
     reorder |-> {p \in ReorderPayloads :
                     /\ Len(p.order) = MaxTasks
                     /\ \A i, j \in 1..MaxTasks : i # j => p.order[i] # p.order[j]}]

NextOverlap ==
    \/ Tick
    \/ \E h \in Slots, s \in Sessions, p \in FewPayloads.add : TodoAdd_findLast(h, s, p)
    \/ \E h \in Slots : TodoAdd_create(h)
    \/ \E h \in Slots, s \in Sessions, p \in FewPayloads.add : TodoAdd_prepare(h, s, p)
    \/ \E h \in Slots : TodoAdd_unshift(h)
    \/ \E h \in Slots, s \in Sessions, p \in FewPayloads.id : TodoRemove_filter(h, s, p)
    \/ \E h \in Slots, s \in Sessions, p \in FewPayloads.id : TodoRemove_delete(h, s, p)
    \/ \E h \in Slots, s \in Sessions, p \in FewPayloads.reorder : TodoReorder_map(h, s, p)
    \/ \E h \in Slots, s \in Sessions, p \in FewPayloads.reorder : TodoReorder_first(h, s, p)
    \/ \E h \in Slots : TodoReorder_update(h)
    \/ \E h \in Slots : Broadcast_list(h)

InitOverlap == InitWith({"todo:add", "todo:reorder"}, {1}, Sessions)

SpecOverlap == InitOverlap /\ [][NextOverlap]_vars

\* Adds with and without a priority and a due date, at every hour of day 1.
PriorityPayloads ==
    [id : {0}, text : {"a"}, completed : {FALSE}, category : {""},
     priority : {"", "low", "high"}, dueDate : {NoDate} \cup (0..5), dueTime : {NoTime, 12},
     dependencies : {{}}]

NextPriority ==
    \/ \E s \in Sessions, p \in PriorityPayloads : TodoAdd_findLast(1, s, p)
    \/ TodoAdd_create(1)
    \/ \E s \in Sessions, p \in PriorityPayloads : TodoAdd_prepare(1, s, p)
    \/ TodoAdd_unshift(1)

InitPriority == InitWith({"todo:add"}, Day..(2 * Day - 1), Sessions)

SpecPriority == InitPriority /\ [][NextPriority]_vars

\* The handlers that name a todo by its id, one message at a time, on stores
\* that adds have built.
NextById ==
    \/ Tick
    \/ \E s \in Sessions, p \in AddPayloads : TodoAdd_findLast(1, s, p)
    \/ TodoAdd_lock(1)
    \/ TodoAdd_create(1)
    \/ \E s \in Sessions, p \in AddPayloads : TodoAdd_prepare(1, s, p)
    \/ TodoAdd_unshift(1)
    \/ \E s \in Sessions, p \in EditPayloads : TodoEdit_mutate(1, s, p)
    \/ TodoEdit_assign(1)
    \/ \E s \in Sessions, p \in EditPayloads : TodoEdit_update(1, s, p)
    \/ TodoEdit_fetch(1)
    \/ TodoEdit_lock(1)
    \/ TodoEdit_setLocked(1)
    \/ \E s \in Sessions, p \in IdPayloads : TodoRemove_filter(1, s, p)
    \/ \E s \in Sessions, p \in IdPayloads : TodoRemove_delete(1, s, p)
    \/ Broadcast_list(1)
    \/ \E s \in Sessions, p \in IdPayloads : TodoToggle_flip(1, s, p)
    \/ \E s \in Sessions, p \in IdPayloads : TodoToggle_find(1, s, p)
    \/ TodoToggle_save(1)
    \/ TodoToggle_dependents(1)
    \/ TodoToggle_lock(1)
    \/ TodoToggle_unlock(1)
    \/ TodoToggle_refetch(1)

InitById == InitWith({"todo:edit", "todo:remove", "todo:toggle"}, {1}, Sessions)

SpecById == InitById /\ [][NextById]_vars

\* Adds with or without a priority, and edits that supply one field or none.
EditedPayloads ==
    [add |-> [id : {0}, text : {"a"}, completed : {FALSE}, category : {""},
              priority : {"", "high"}, dueDate : {NoDate}, dueTime : {NoTime},
              dependencies : {{}}],
     edit |-> [id : 1..MaxTasks, has : {{}, {"text"}, {"dueDate"}},
               text : {"b"}, category : {"home"}, priority : {"", "medium"},
               dueDate : {2}, dueTime : {NoTime}, dependencies : {{}}]]

NextEdited ==
    \/ Tick
    \/ \E s \in Sessions, p \in EditedPayloads.add : TodoAdd_findLast(1, s, p)
    \/ TodoAdd_create(1)
    \/ \E s \in Sessions, p \in EditedPayloads.add : TodoAdd_prepare(1, s, p)
    \/ TodoAdd_unshift(1)
    \/ \E s \in Sessions, p \in EditedPayloads.edit : TodoEdit_mutate(1, s, p)
    \/ TodoEdit_assign(1)
    \/ \E s \in Sessions, p \in EditedPayloads.edit : TodoEdit_update(1, s, p)
    \/ TodoEdit_fetch(1)

InitEdited == InitWith({"todo:edit"}, {1}, Sessions)

SpecEdited == InitEdited /\ [][NextEdited]_vars

\* Sessions that connect and close while messages are handled, one at a time.
NextSessions ==
    \/ \E s \in Sessions : Connection_read(1, s)
    \/ Connection_send(1)
    \/ \E s \in Sessions : Close(s)
    \/ \E s \in Sessions, p \in AddPayloads : TodoAdd_findLast(1, s, p)
    \/ TodoAdd_lock(1)
    \/ TodoAdd_create(1)
    \/ \E s \in Sessions, p \in AddPayloads : TodoAdd_prepare(1, s, p)
    \/ TodoAdd_unshift(1)
    \/ \E s \in Sessions, p \in IdPayloads : TodoRemove_filter(1, s, p)
    \/ \E s \in Sessions, p \in IdPayloads : TodoRemove_delete(1, s, p)
    \/ Broadcast_list(1)
    \/ \E s \in Sessions, raw \in RawMessages : Incoming_drop(1, s, raw)
    \/ \E s \in Sessions, raw \in RawMessages : TodoClearAll_assign(1, s, raw)
    \/ \E s \in Sessions, raw \in RawMessages : TodoClearAll_deleteMany(1, s, raw)
    \/ TodoClearAll_broadcast(1)
    \/ \E s \in Sessions, p \in RestorePayloads : TodoRestoreMany_concat(1, s, p)
    \/ \E s \in Sessions, p \in RestorePayloads : TodoRestoreMany_insertMany(1, s, p)

InitSessions ==
    InitWith({"connection", "todo:add", "todo:remove", "todo:clearAll", "todo:restoreMany",
              "none"}, {1}, {})

SpecSessions == InitSessions /\ [][NextSessions]_vars

\* Adds and toggles, one message at a time, with mongoose calls that may
\* reject.
NextFailing ==
    \/ Tick
    \/ \E s \in Sessions, p \in AddPayloads : TodoAdd_findLast(1, s, p)
    \/ TodoAdd_lock(1)
    \/ TodoAdd_create(1)
    \/ \E s \in Sessions, p \in AddPayloads : TodoAdd_prepare(1, s, p)
    \/ TodoAdd_unshift(1)
    \/ \E s \in Sessions, p \in IdPayloads : TodoToggle_flip(1, s, p)
    \/ \E s \in Sessions, p \in IdPayloads : TodoToggle_find(1, s, p)
    \/ TodoToggle_save(1)
    \/ TodoToggle_dependents(1)
    \/ TodoToggle_lock(1)
    \/ TodoToggle_unlock(1)
    \/ TodoToggle_refetch(1)
    \/ StoreFails(1)

InitFailing == InitWith({"todo:add", "todo:toggle"}, {1}, Sessions)

SpecFailing == InitFailing /\ [][NextFailing]_vars

\* Todos created by todo:add messages and by POST /api/todos requests, one
\* at a time, with and without a priority and a due date.
PostBodies ==
    [text : {"", "a"}, category : {""}, priority : {"", "high"}, dueDate : {NoDate, 1},
     dueTime : {NoTime}]

NextPost ==
    \/ \E s \in Sessions, p \in AddPayloads : TodoAdd_findLast(1, s, p)
    \/ TodoAdd_lock(1)
    \/ TodoAdd_create(1)
    \/ \E s \in Sessions, p \in AddPayloads : TodoAdd_prepare(1, s, p)
    \/ TodoAdd_unshift(1)
    \/ \E body \in PostBodies : PostTodos_findLast(1, body)
    \/ PostTodos_create(1)
    \/ \E body \in PostBodies : PostTodos_unshift(1, body)

InitPost == InitWith({"POST /api/todos"}, {1}, Sessions)

SpecPost == InitPost /\ [][NextPost]_vars

\* Reorders, of all or of some of the stored ids, one message at a time on
\* stores that adds have built.
NextReorder ==
    \/ Tick
    \/ \E s \in Sessions, p \in AddPayloads : TodoAdd_findLast(1, s, p)
    \/ TodoAdd_lock(1)
    \/ TodoAdd_create(1)
    \/ \E s \in Sessions, p \in AddPayloads : TodoAdd_prepare(1, s, p)
    \/ TodoAdd_unshift(1)
    \/ \E s \in Sessions, p \in ReorderPayloads : TodoReorder_map(1, s, p)
    \/ \E s \in Sessions, p \in ReorderPayloads : TodoReorder_first(1, s, p)
    \/ TodoReorder_update(1)
    \/ Broadcast_list(1)

InitReorder == InitWith({"todo:reorder"}, {1}, Sessions)

SpecReorder == InitReorder /\ [][NextReorder]_vars

\* In-memory edits that overlap with adds, removes and reorders of one
\* session, the only one connected: messages read from the socket in one
\* chunk.  The edits name the first todo and supply nothing or a dependency.
StalePayloads == {p \in EditPayloads : p.id = 1 /\ p.dependencies \in {{}, {1}}}

NextStale ==
    \/ Tick
    \/ \E h \in Slots, s \in Sessions, p \in FewPayloads.add : TodoAdd_prepare(h, s, p)
    \/ \E h \in Slots : TodoAdd_unshift(h)
    \/ \E h \in Slots, s \in Sessions, p \in StalePayloads : TodoEdit_mutate(h, s, p)
    \/ \E h \in Slots : TodoEdit_assign(h)
    \/ \E h \in Slots, s \in Sessions, p \in FewPayloads.id : TodoRemove_filter(h, s, p)
    \/ \E h \in Slots, s \in Sessions, p \in FewPayloads.reorder : TodoReorder_map(h, s, p)

InitStale == InitWith({"todo:edit"}, {1}, {1})

SpecStale == InitStale /\ [][NextStale]_vars

\* ------------------------------------------------------------------------
\* Properties

\* No handler is in flight: every operation that was started has completed.
Quiet == \A h \in Slots : ~Busy(h)

\* The todos of the list s that have the id.
WithId(s, id) == {i \in 1..Len(s) : s[i].id = id}

\* Some dependency in deps is a todo of s that is not completed.
Blocked(s, deps) == \E d \in deps : \E i \in WithId(s, d) : ~s[i].completed

\* The messages of the list msgs that satisfy Is.
Count(Is(_), msgs) == Cardinality({i \in 1..Len(msgs) : Is(msgs[i])})

\* Slot h holds an observed handler of the type that has run to its end.
Done(h, type) == op[h] = type /\ pc[h] = "done"

\* The handler of slot h, of the type, has just run to its end: no step has
\* been taken since.
Finished(h, type) == Done(h, type) /\ last = h

\* The todo an add handler that is done has stored, as it was broadcast.
Added(h) == out[h][Len(out[h])].todo

\* C1: once every operation has completed, each stored task is locked exactly
\* when one of its dependencies is a stored task that is not completed.
C1_LockedIffBlocked ==
    Quiet => \A i \in 1..Len(Stored) :
                 Stored[i].locked = Blocked(Stored, Stored[i].dependencies)

\* C2: a stored task without dependencies is never locked, whichever operation
\* stored it, restore-many included.
C2_NoDependenciesUnlocked ==
    \A i \in 1..Len(Stored) : Stored[i].dependencies = {} => ~Stored[i].locked

\* C3: the lock recompute of add and edit yields false when every dependency
\* is missing from the store or completed, on both store paths.  The handler is
\* looked at right after its recompute, before it writes the result.
C3_MissingIsSatisfied ==
    \A h \in Slots :
        /\ At(h, "todo:add", "add_create") \/ At(h, "todo:add", "add_unshift")
               => (~Blocked(Stored, arg[h].dependencies) => ~loc[h].locked)
        /\ (At(h, "todo:edit", "edit_assign") /\ loc[h].idx <= Len(inMemory))
               => (~Blocked(Stored, inMemory[loc[h].idx].dependencies) => ~loc[h].locked)

\* C4: when a toggle completes task A, each other task B that was locked and
\* had A as its only stored incomplete dependency is unlocked, and exactly one
\* update with locked = false and exactly one reminder are sent for B.
C4_ToggleUnlocksDependents ==
    \A h \in Slots :
        (/\ Finished(h, "todo:toggle")
         /\ out[h] # <<>>
         /\ out[h][1].todo.completed
         /\ \A i, j \in 1..Len(before[h]) : before[h][i].id = before[h][j].id => i = j)
        => \A b \in 1..Len(before[h]) :
               LET A == arg[h].id
                   B == before[h][b]
                   IsUpdate(m) == m.type = "sync:update" /\ m.todo.id = B.id /\ ~m.todo.locked
                   IsReminder(m) == m.type = "todo:reminder" /\ m.id = B.id
               IN  (/\ B.id # A
                    /\ B.locked
                    /\ A \in B.dependencies
                    /\ \A d \in B.dependencies : Blocked(before[h], {d}) => d = A)
                   => /\ \A i \in WithId(Stored, B.id) : ~Stored[i].locked
                      /\ Count(IsUpdate, out[h]) = 1
                      /\ Count(IsReminder, out[h]) = 1

\* C5: when a reorder of stored tasks has completed, the stored position of
\* the task named at place i of its order is i (places counted from 0).
C5_ReorderPositionsMatch ==
    \A h \in Slots :
        (/\ Finished(h, "todo:reorder")
         /\ \A i \in 1..Len(arg[h].order) : WithId(before[h], arg[h].order[i]) # {})
        => \A i \in 1..Len(arg[h].order) :
               \A k \in WithId(Stored, arg[h].order[i]) : Stored[k].position = i - 1

\* C6: two adds that overlapped and have both completed gave their tasks
\* different positions.
C6_AddsGetDifferentPositions ==
    \A g, h \in Slots :
        (g # h /\ Done(g, "todo:add") /\ Done(h, "todo:add")
         /\ out[g] # <<>> /\ out[h] # <<>>)
        => Added(g).position # Added(h).position

\* C7: no two stored tasks have the same position, after any sequence of
\* operations.
C7_PositionsUnique ==
    \A i, j \in 1..Len(Stored) : i # j => Stored[i].position # Stored[j].position

\* C8: a request-sync that reads the list after clear-all has emptied the
\* store, with no state-changing operation since, reads the empty list and
\* replies with exactly one replace holding the empty list, to the requester.
C8_ClearAllThenRequestEmpty ==
    \A h \in Slots :
        (op[h] = "sync:request" /\ loc[h].afterClear)
        => /\ loc[h].todos = <<>>
           /\ pc[h] = "done" => out[h] = <<Replace(<<>>, {ws[h]})>>

\* C8: a request-sync has completed whose read followed a clear-all.
C8_Witness ==
    \E h \in Slots : Finished(h, "sync:request") /\ loc[h].afterClear /\ out[h] # <<>>

\* The day the clock is in.
Today == clock \div Day

\* C9: an add without a priority and without a due time is stored with high
\* when its due date is today and with medium when it is tomorrow, at any
\* time of the day.
C9_TomorrowIsMedium ==
    \A h \in Slots :
        (Finished(h, "todo:add") /\ out[h] # <<>>
         /\ arg[h].priority = "" /\ arg[h].dueTime = NoTime)
        => /\ arg[h].dueDate = Today => Added(h).priority = "high"
           /\ arg[h].dueDate = Today + 1 => Added(h).priority = "medium"

\* The due instant of the payload p: its due time on its due date, midnight
\* when it has no due time.
DueInstant(p) == p.dueDate * Day + (IF p.dueTime = NoTime THEN 0 ELSE p.dueTime)

\* C10: an add is stored with the priority it supplies; without one, with high
\* when its due instant is past or at most 24 hours ahead, with medium when it
\* is more than 24 and at most 72 hours ahead, and with low otherwise.
C10_AddPriority ==
    \A h \in Slots :
        (Finished(h, "todo:add") /\ out[h] # <<>>)
        => LET p == arg[h]
               ahead == DueInstant(p) - clock
           IN  Added(h).priority =
                   IF p.priority # "" THEN p.priority
                   ELSE IF p.dueDate = NoDate THEN "low"
                   ELSE IF ahead <= 24 THEN "high"
                   ELSE IF ahead <= 72 THEN "medium"
                   ELSE "low"

\* C10: an add without a priority has been stored with each derived priority:
\* here with medium, for a due instant more than a day ahead.
C10_Witness ==
    \E h \in Slots :
        /\ Finished(h, "todo:add") /\ out[h] # <<>>
        /\ arg[h].priority = "" /\ arg[h].dueDate # NoDate
        /\ DueInstant(arg[h]) - clock > 24
        /\ Added(h).priority = "medium"

\* Where the messages of the type stand in the list msgs.
Places(msgs, type) == {i \in 1..Len(msgs) : msgs[i].type = type}

\* C11: an add with a provisional id sends exactly one confirm, of that id to
\* the id of the stored task, to the requester only and ahead of the update;
\* an add without one sends no confirm; the one update of the new task goes to
\* every open session but the requester.
C11_AddConfirmThenUpdate ==
    \A h \in Slots :
        (Finished(h, "todo:add") /\ out[h] # <<>>)
        => LET confirms == Places(out[h], "sync:confirm")
               updates == Places(out[h], "sync:update")
           IN  /\ Cardinality(updates) = 1
               /\ \A u \in updates :
                      /\ out[h][u].to = open \ {ws[h]}
                      /\ WithId(Stored, out[h][u].todo.id) # {}
                      /\ \A c \in confirms :
                             c < u /\ out[h][c].realId = out[h][u].todo.id
               /\ \A c \in confirms :
                      out[h][c].tempId = arg[h].id /\ out[h][c].to = {ws[h]}
               /\ Cardinality(confirms) = IF arg[h].id # 0 THEN 1 ELSE 0
               /\ Cardinality(confirms) + Cardinality(updates) = Len(out[h])

\* C11: an add with a provisional id has completed while another session was
\* open.
C11_Witness ==
    \E h \in Slots :
        /\ Finished(h, "todo:add") /\ arg[h].id # 0
        /\ Places(out[h], "sync:confirm") # {}
        /\ \E u \in Places(out[h], "sync:update") : out[h][u].to # {}

\* The list todos is in ascending order of position.
Ascending(todos) ==
    \A i, j \in 1..Len(todos) : i < j => todos[i].position <= todos[j].position

\* C12: the reply to a request-sync is one replace, sent to the requester
\* only, whose list is in ascending order of position.
C12_RequestReplySorted ==
    \A h \in Slots :
        Finished(h, "sync:request")
        => /\ Len(out[h]) = 1
           /\ out[h][1].type = "sync:replace"
           /\ out[h][1].to = {ws[h]}
           /\ Ascending(out[h][1].todos)

\* The todos of the list s have different ids.
UniqueIds(s) == \A i, j \in 1..Len(s) : s[i].id = s[j].id => i = j

\* C13: an edit changes, of the todo it names, only the fields its payload
\* supplies (locked aside): text, category, dueDate, dueTime, priority and
\* dependencies keep their stored value when absent, completed and position
\* keep it always; every other todo is as it was.  For priority, only the edits
\* that supply no due date and no due time are held to this.
C13_EditChangesSuppliedOnly ==
    \A h \in Slots :
        (Finished(h, "todo:edit") /\ UniqueIds(before[h]))
        => /\ Len(Stored) = Len(before[h])
           /\ \A k \in 1..Len(before[h]) :
                  LET old == before[h][k]
                      new == Stored[k]
                      p == arg[h]
                  IN  IF old.id # p.id THEN new = old
                      ELSE /\ new.id = old.id
                           /\ new.completed = old.completed
                           /\ new.position = old.position
                           /\ ~Given(p, "text") => new.text = old.text
                           /\ ~Given(p, "category") => new.category = old.category
                           /\ ~Given(p, "dueDate") => new.dueDate = old.dueDate
                           /\ ~Given(p, "dueTime") => new.dueTime = old.dueTime
                           /\ (p.priority = "" /\ ~Given(p, "dueDate") /\ ~Given(p, "dueTime"))
                                  => new.priority = old.priority
                           /\ ~Given(p, "dependencies") => new.dependencies = old.dependencies

\* C14: operations are serialized: the handling of a message does not begin
\* while the handler of an earlier message is suspended at an await, so at
\* most one handler is in flight.
C14_Serialized == Cardinality({h \in Slots : Busy(h)}) <= 1

\* The handlers that emit all their broadcasts in their last segment.
BroadcastsAtEnd == {"todo:add", "todo:remove", "todo:clearAll", "todo:restoreMany"}

\* C15: a broadcast reaches exactly the sessions that are open at the call and
\* are not the excluded one (the requester, for the update of an add; none
\* otherwise); a closed session gets nothing and keeps nothing from the others.
C15_BroadcastToOpenSessions ==
    \A h \in Slots :
        (last = h /\ pc[h] = "done" /\ op[h] \in BroadcastsAtEnd)
        => \A i \in 1..Len(out[h]) :
               LET m == out[h][i]
               IN  m.type # "sync:confirm"
                   => m.to = IF op[h] = "todo:add" THEN open \ {ws[h]} ELSE open

\* C15: a broadcast to everyone has been made while one session was open and
\* another was closed.
C15_Witness ==
    \E h \in Slots :
        /\ Finished(h, "todo:clearAll")
        /\ open # {} /\ open # Sessions
        /\ out[h] # <<>> /\ out[h][1].to = open

\* C16: when a restore-many has completed, the list a request-sync then
\* returns begins with the restored snapshots, each with the locked and
\* priority values its snapshot supplied, ahead of every todo that was stored
\* before; and the handler has sent that list, as one replace, to all sessions.
C16_RestoredAheadAsSupplied ==
    \A h \in Slots :
        (Finished(h, "todo:restoreMany") /\ out[h] # <<>>)
        => LET items == arg[h].items
               list == getAllTodos
           IN  /\ Len(list) = Len(items) + Len(before[h])
               /\ \A i \in 1..Len(items) :
                      /\ list[i].text = items[i].text
                      /\ list[i].locked = items[i].locked
                      /\ list[i].priority = items[i].priority
               /\ \A k \in 1..Len(before[h]) :
                      \E j \in (Len(items) + 1)..Len(list) : list[j] = before[h][k]
               /\ out[h] = <<Replace(list, open)>>

\* The ids the store can have handed out so far: the _ids below nextOid on
\* the durable path, the timestamps up to now on the in-memory path.
Assigned == IF mongo THEN 1..(nextOid - 1) ELSE 1..clock

\* C17: the id of every stored todo is one the store has assigned, never one
\* that only a client's payload named.
C17_IdsAssignedByServer ==
    \A i \in 1..Len(Stored) : Stored[i].id \in Assigned

\* The message types that name an operation.
Operations ==
    {"sync:request", "todo:add", "todo:edit", "todo:remove", "todo:toggle",
     "todo:clearCompleted", "todo:clearAll", "todo:removeAll", "todo:reorder",
     "todo:restoreMany"}

\* Slot h has just finished with a raw message that does not parse, has no
\* type or has a type that names no operation.
DroppedMessage(h) ==
    /\ last = h /\ pc[h] = "done"
    /\ "parses" \in DOMAIN arg[h]
    /\ ~arg[h].parses \/ arg[h].type = "" \/ arg[h].type \notin Operations

\* C18: a message that does not parse, has no type or has an unrecognized
\* type leaves the store as it was and has nothing sent to any session.
C18_MalformedDropped ==
    \A h \in Slots : DroppedMessage(h) => Stored = before[h] /\ out[h] = <<>>

\* C18: a message of an unrecognized type has been handled while the store
\* held a todo and a session was open.
C18_Witness ==
    \E h \in Slots :
        /\ DroppedMessage(h) /\ arg[h].parses /\ arg[h].type = "todo:unknown"
        /\ Stored # <<>> /\ open # {}

\* Slot h has just finished an edit, a toggle or a remove that named an id
\* no stored todo had.
NamedMissing(h) ==
    /\ last = h /\ pc[h] = "done"
    /\ op[h] \in {"todo:edit", "todo:toggle", "todo:remove"}
    /\ WithId(before[h], arg[h].id) = {}

\* C19: an edit, toggle or remove that names an id not in the store leaves the
\* store as it was; the only message it has sent, if any, is the replace with
\* the unchanged list (no error message).
C19_MissingIdIsNoOp ==
    \A h \in Slots :
        NamedMissing(h)
        => /\ Stored = before[h]
           /\ \A i \in 1..Len(out[h]) :
                  out[h][i].type = "sync:replace" /\ out[h][i].todos = getAllTodos

\* C19: on the durable path an edit has named a missing id while the store
\* held a todo.
C19_Witness ==
    \E h \in Slots : NamedMissing(h) /\ Stored # <<>> /\ mongo /\ op[h] = "todo:edit"

\* Slot h has just finished a toggle of a todo that was stored, the ids of
\* the store being all different.
Toggled(h) ==
    /\ Finished(h, "todo:toggle")
    /\ UniqueIds(before[h])
    /\ WithId(before[h], arg[h].id) # {}

C21_ToggleUpdateFirst ==
    \A h \in Slots :
        (Finished(h, "todo:toggle") /\ out[h] # <<>>)
        => /\ out[h][1].type = "sync:update"
           /\ out[h][1].todo.id = arg[h].id
           /\ \A i \in 2..Len(out[h]) :
                  /\ out[h][i].type = "todo:reminder"
                         => /\ i > 2
                            /\ out[h][i - 1].type = "sync:update"
                            /\ out[h][i - 1].todo.id = out[h][i].id
                            /\ ~out[h][i - 1].todo.locked
                  /\ out[h][i].type = "sync:update"
                         => /\ i < Len(out[h])
                            /\ out[h][i + 1].type = "todo:reminder"
                            /\ out[h][i + 1].id = out[h][i].todo.id

\* C21: a toggle has sent the update and the reminder of an unlocked
\* dependent after its own update.
C21_Witness ==
    \E h \in Slots :
        /\ Finished(h, "todo:toggle") /\ Len(out[h]) >= 3
        /\ out[h][3].type = "todo:reminder"

\* Slot h has just finished a handler that a rejected store call aborted.
Aborted(h) == last = h /\ pc[h] = "done" /\ "failed" \in DOMAIN loc[h]

\* C22: a handler that a failing store access has aborted has sent no message
\* to any session, before or after the failure.
C22_AbortedSendsNothing ==
    \A h \in Slots : Aborted(h) => out[h] = <<>>

\* Slot h has just finished a POST /api/todos that created a todo.
Posted(h) == Finished(h, "POST /api/todos") /\ "todo" \in DOMAIN loc[h]

\* The position an add gives a new todo on the store s.
AddPosition(s) ==
    IF ~mongo THEN Len(s)
    ELSE IF s = <<>> THEN 0
    ELSE 1 + (CHOOSE n \in {s[i].position : i \in 1..Len(s)} :
                  \A i \in 1..Len(s) : s[i].position <= n)

\* C23: the todo a POST /api/todos creates has the priority a todo:add of the
\* same fields derives (the one given, else the one escalated from the due
\* date, else low), is not locked, has the position an add assigns, and is
\* broadcast as an update to the open sessions.
C23_PostIsAdd ==
    \A h \in Slots :
        Posted(h)
        => LET todo == loc[h].todo
           IN  /\ todo.priority = AddPriority(arg[h], clock)
               /\ todo.locked = computeLockedFor({})
               /\ todo.position = AddPosition(before[h])
               /\ \E i \in 1..Len(out[h]) :
                      out[h][i].type = "sync:update" /\ out[h][i].todo = todo

\* C24: no two todos of the in-memory list have the same id.
C24_InMemoryIdsDiffer == UniqueIds(inMemory)

\* C25: when a reorder has completed, every todo that was stored before it is
\* still stored, the same in every field but position, also when the order
\* leaves some stored ids out.
C25_ReorderKeepsTodos ==
    \A h \in Slots :
        Finished(h, "todo:reorder")
        => \A k \in 1..Len(before[h]) :
               \E j \in 1..Len(Stored) :
                   Stored[j] = [before[h][k] EXCEPT !.position = Stored[j].position]

\* C26: an in-memory edit of a stored todo that has completed has sent one
\* update, of the todo with the id it named, and a stored todo with that id
\* has the locked value the update carries, whatever ran while the handler
\* was suspended at its lock recompute.
C26_EditUpdatesNamedTodo ==
    \A h \in Slots :
        (~mongo /\ Finished(h, "todo:edit") /\ WithId(before[h], arg[h].id) # {})
        => /\ Len(out[h]) = 1
           /\ out[h][1].type = "sync:update"
           /\ "todo" \in DOMAIN out[h][1]
           /\ out[h][1].todo.id = arg[h].id
           /\ \E k \in WithId(Stored, arg[h].id) :
                  Stored[k].locked = out[h][1].todo.locked

====
